---------------------------- MODULE Spec2Model ----------------------------
(***************************************************************************)
(* Model of plugins/doubanrankplus/__init__.py (class ForceManualTransfer):*)
(* the episode extractor _get_episode, the batch transfer _do_transfer and *)
(* the self-resetting trigger of init_plugin.                              *)
(*                                                                         *)
(* A string is a sequence of characters; a character is a one-character    *)
(* TLA+ string, except the CJK character U+7B2C, which is written "U7B2C". *)
(* A file-system path is a sequence of components, each a string.          *)
(***************************************************************************)
EXTENDS Integers, Sequences, FiniteSets, TLC

-----------------------------------------------------------------------------
(* Characters *)

\* The character U+7B2C of the pattern on line 62.
DI == "U7B2C"

Digits == {"0", "1", "2", "3", "4", "5", "6", "7", "8", "9"}

\* str.isdigit / the class \d on the characters of the model.
IsDigit(c) == c \in Digits

\* int() of one decimal digit.
DigitVal(c) ==
    CASE c = "0" -> 0 [] c = "1" -> 1 [] c = "2" -> 2 [] c = "3" -> 3
      [] c = "4" -> 4 [] c = "5" -> 5 [] c = "6" -> 6 [] c = "7" -> 7
      [] c = "8" -> 8 [] c = "9" -> 9

\* str() of one decimal digit.
DigitChar(d) ==
    CASE d = 0 -> "0" [] d = 1 -> "1" [] d = 2 -> "2" [] d = 3 -> "3"
      [] d = 4 -> "4" [] d = 5 -> "5" [] d = 6 -> "6" [] d = 7 -> "7"
      [] d = 8 -> "8" [] d = 9 -> "9"

\* The class \s on the characters of the model.
IsSpace(c) == c = " "

\* str.lower() on one character; (?i) compares characters under it.
LowerChar(c) ==
    CASE c = "E" -> "e" [] c = "K" -> "k" [] c = "M" -> "m" [] c = "P" -> "p"
      [] c = "S" -> "s" [] c = "V" -> "v" [] c = "X" -> "x"
      [] OTHER -> c

\* str.lower().
Lower(s) == [i \in 1..Len(s) |-> LowerChar(s[i])]

-----------------------------------------------------------------------------
(* _get_episode, lines 59-70 *)

\* Optional[int]: None is the empty sequence, an int n is <<n>>.
None == <<>>

Some(n) == <<n>>

\* The last index of the maximal digit run that starts at j (greedy \d+).
RECURSIVE DigitRunEnd(_, _)
DigitRunEnd(s, j) ==
    IF j < Len(s) /\ IsDigit(s[j + 1]) THEN DigitRunEnd(s, j + 1) ELSE j

\* int(s[j..k]) for a run of decimal digits.
RECURSIVE IntOf(_, _, _)
IntOf(s, j, k) ==
    IF k < j THEN 0 ELSE 10 * IntOf(s, j, k - 1) + DigitVal(s[k])

\* \s* from index k: the index of the first character that is not whitespace.
RECURSIVE SkipSpaces(_, _)
SkipSpaces(s, k) ==
    IF k <= Len(s) /\ IsSpace(s[k]) THEN SkipSpaces(s, k + 1) ELSE k

\* \s*(\d+) from index k: the index where group 1 starts, 0 when no match.
MatchTail(s, k) ==
    LET j == SkipSpaces(s, k)
    IN  IF j <= Len(s) /\ IsDigit(s[j]) THEN j ELSE 0

\* (?i)(?:e|ep|U+7B2C)\s*(\d+) anchored at index i, the alternatives tried in
\* the pattern's order: the index where group 1 starts, 0 when no match.
MatchAt(s, i) ==
    LET altE  == IF LowerChar(s[i]) = "e" THEN MatchTail(s, i + 1) ELSE 0
        altEP == IF /\ LowerChar(s[i]) = "e"
                    /\ i + 1 <= Len(s)
                    /\ LowerChar(s[i + 1]) = "p"
                 THEN MatchTail(s, i + 2) ELSE 0
        altDI == IF s[i] = DI THEN MatchTail(s, i + 1) ELSE 0
    IN  IF altE # 0 THEN altE ELSE IF altEP # 0 THEN altEP ELSE altDI

\* re.search: the leftmost index from i on where the pattern matches; the
\* result is where group 1 starts, 0 when there is no match.
RECURSIVE ReSearch(_, _)
ReSearch(s, i) ==
    IF i > Len(s) THEN 0
    ELSE IF MatchAt(s, i) # 0 THEN MatchAt(s, i)
    ELSE ReSearch(s, i + 1)

\* re.findall(r'(\d+)', filename) from index i, each run already through int().
RECURSIVE FindAllNumbers(_, _)
FindAllNumbers(s, i) ==
    IF i > Len(s) THEN <<>>
    ELSE IF IsDigit(s[i])
         THEN <<IntOf(s, i, DigitRunEnd(s, i))>>
                  \o FindAllNumbers(s, DigitRunEnd(s, i) + 1)
         ELSE FindAllNumbers(s, i + 1)

\* The values line 67 discards besides those >= 1000.
Blacklist == {264, 265, 720, 480}

\* ValidNum with the bound of line 67 off by one (<= for <).
ValidNumOffByOne(n) == n <= 1000 /\ n \notin Blacklist

\* The comprehension of line 67.
ValidNum(n) == n < 1000 /\ n \notin Blacklist

ValidNums(nums) == SelectSeq(nums, ValidNum)

_get_episode(filename) ==
    LET g == ReSearch(filename, 1)
        valid_nums == ValidNums(FindAllNumbers(filename, 1))
    IN  IF g # 0 THEN Some(IntOf(filename, g, DigitRunEnd(filename, g)))
        ELSE IF valid_nums # <<>> THEN Some(valid_nums[Len(valid_nums)])
        ELSE None

-----------------------------------------------------------------------------
(* Strings and their order *)

\* ord() on the characters of the model.
Code(c) ==
    CASE c = " " -> 32 [] c = "-" -> 45 [] c = "." -> 46
      [] c \in Digits -> 48 + DigitVal(c)
      [] c = "E" -> 69 [] c = "K" -> 75 [] c = "M" -> 77 [] c = "P" -> 80
      [] c = "S" -> 83 [] c = "V" -> 86 [] c = "X" -> 88
      [] c = "a" -> 97 [] c = "c" -> 99 [] c = "e" -> 101 [] c = "g" -> 103
      [] c = "k" -> 107 [] c = "m" -> 109 [] c = "n" -> 110 [] c = "o" -> 111
      [] c = "p" -> 112 [] c = "r" -> 114 [] c = "s" -> 115 [] c = "t" -> 116
      [] c = "v" -> 118 [] c = "x" -> 120 [] c = "z" -> 122
      [] c = DI -> 31532

\* a < b on strings: the comparison list.sort makes on the keys x.name.
RECURSIVE StrLess(_, _)
StrLess(a, b) ==
    IF b = <<>> THEN FALSE
    ELSE IF a = <<>> THEN TRUE
    ELSE IF Code(Head(a)) # Code(Head(b)) THEN Code(Head(a)) < Code(Head(b))
    ELSE StrLess(Tail(a), Tail(b))

\* str(n) for n >= 0.
RECURSIVE IntToStr(_)
IntToStr(n) ==
    IF n < 10 THEN <<DigitChar(n)>>
    ELSE IntToStr(n \div 10) \o <<DigitChar(n % 10)>>

\* format(n, "02d") for n >= 0.
Pad2(n) == IF n < 10 THEN <<"0">> \o IntToStr(n) ELSE IntToStr(n)

\* int(self._season) on a string: its value, None when int() raises.
IntOfStr(s) ==
    IF s # <<>> /\ \A i \in 1..Len(s) : IsDigit(s[i])
    THEN Some(IntOf(s, 1, Len(s))) ELSE None

\* str.rfind("."): the last index of a dot, 0 when there is none.
RECURSIVE LastDot(_, _)
LastDot(name, i) ==
    IF i = 0 THEN 0 ELSE IF name[i] = "." THEN i ELSE LastDot(name, i - 1)

\* PurePath.suffix: from the last dot on, unless that dot starts or ends
\* the name.
Suffix(name) ==
    LET i == LastDot(name, Len(name))
    IN  IF 1 < i /\ i < Len(name) THEN SubSeq(name, i, Len(name)) ELSE <<>>

\* PurePath.stem.
Stem(name) ==
    LET i == LastDot(name, Len(name))
    IN  IF 1 < i /\ i < Len(name) THEN SubSeq(name, 1, i - 1) ELSE name

\* _exts, line 39.
exts ==
    { <<".", "s", "t", "r", "m">>, <<".", "m", "p", "4">>,
      <<".", "m", "k", "v">>, <<".", "t", "s">>, <<".", "a", "v", "i">>,
      <<".", "r", "m", "v", "b">>, <<".", "w", "m", "v">>,
      <<".", "m", "o", "v">>, <<".", "f", "l", "v">>, <<".", "a", "s", "s">>,
      <<".", "s", "r", "t">>, <<".", "n", "f", "o">> }

-----------------------------------------------------------------------------
(* The file system *)
(* fs maps each path that has a directory entry to that entry: a regular   *)
(* file with a content, a directory, or a symbolic link to a path.         *)

File(content) == [kind |-> "file", data |-> content]

Dir == [kind |-> "dir", data |-> <<>>]

Symlink(target) == [kind |-> "symlink", data |-> target]

\* os.path.lexists: the path has an entry, a dangling link included.
LExists(f, p) == p \in DOMAIN f

\* The entry stat() reaches from p: links are followed at most `fuel` times
\* (ELOOP beyond); <<>> when the walk ends on no entry.
RECURSIVE Follow(_, _, _)
Follow(f, p, fuel) ==
    IF p \notin DOMAIN f THEN <<>>
    ELSE IF f[p].kind # "symlink" THEN <<f[p]>>
    ELSE IF fuel = 0 THEN <<>>
    ELSE Follow(f, f[p].data, fuel - 1)

Stat(f, p) == Follow(f, p, Cardinality(DOMAIN f))

\* Path.exists(): stat() succeeds; ENOENT and ELOOP give False.
Exists(f, p) == Stat(f, p) # <<>>

\* Path.is_dir() and Path.is_file(): both follow links.
IsDir(f, p) == Exists(f, p) /\ Stat(f, p)[1].kind = "dir"

IsFile(f, p) == Exists(f, p) /\ Stat(f, p)[1].kind = "file"

\* The path without its last component.
Parent(p) == SubSeq(p, 1, Len(p) - 1)

Remove(f, p) == [q \in DOMAIN f \ {p} |-> f[q]]

Put(f, p, e) == [q \in DOMAIN f \cup {p} |-> IF q = p THEN e ELSE f[q]]

\* Path.iterdir(): the names of the entries of directory d.
IterDir(f, d) ==
    { p[Len(p)] : p \in { q \in DOMAIN f : Len(q) = Len(d) + 1 /\ Parent(q) = d } }

\* Path.unlink() can succeed: the entry is there and is no directory.
CanUnlink(f, p) == LExists(f, p) /\ f[p].kind # "dir"

\* Path.mkdir(parents=True, exist_ok=True) can succeed: no prefix of d is
\* taken by something that is not a directory.
CanMkdir(f, d) == \A n \in 1..Len(d) : LExists(f, SubSeq(d, 1, n)) => IsDir(f, SubSeq(d, 1, n))

\* Its effect: d and every missing ancestor become directories, the
\* existing ones are left alone.
Mkdir(f, d) ==
    [q \in DOMAIN f \cup { SubSeq(d, 1, n) : n \in 1..Len(d) } |->
        IF q \in DOMAIN f THEN f[q] ELSE Dir]

\* The path open(dst, "wb") creates or truncates: dst itself, or where its
\* chain of links ends; <<>> when the chain loops or the file's directory is
\* missing (ELOOP, ENOENT).
RECURSIVE WriteTarget(_, _, _)
WriteTarget(f, p, fuel) ==
    IF p \in DOMAIN f /\ f[p].kind = "symlink"
    THEN IF fuel = 0 THEN <<>> ELSE WriteTarget(f, f[p].data, fuel - 1)
    ELSE IF p \in DOMAIN f /\ f[p].kind = "dir" THEN <<>>
    ELSE IF p # <<>> /\ IsDir(f, Parent(p)) THEN <<p>>
    ELSE <<>>

\* A transfer's result: whether the call returned (ok) or raised, and the
\* file system it leaves.
Returned(f) == [ok |-> TRUE, fs |-> f]

Raised(f) == [ok |-> FALSE, fs |-> f]

\* shutil.move(src, dst), dst being no existing directory: os.rename, which
\* replaces whatever entry dst has; a missing src raises.
Move(f, src, dst) ==
    IF ~LExists(f, src) THEN Raised(f)
    ELSE IF src = dst THEN Returned(f)
    ELSE Returned(Put(Remove(f, src), dst, f[src]))

\* Copy2 with the season directory passed for the destination path: the
\* copy lands in it under the source's own name.
Copy2IntoDir(f, src, dst) ==
    LET into == Parent(dst) \o <<src[Len(src)]>>
    IN  IF ~IsFile(f, src) \/ LExists(f, into) THEN Raised(f)
        ELSE Returned(Put(f, into, File(Stat(f, src)[1].data)))

\* shutil.copy2(src, dst): src is read and dst written through links; it
\* raises when src is no file, when dst cannot be opened, and when both are
\* the same file (SameFileError).
Copy2(f, src, dst) ==
    LET w == WriteTarget(f, dst, Cardinality(DOMAIN f))
    IN  IF ~IsFile(f, src) \/ w = <<>> THEN Raised(f)
        ELSE IF w = WriteTarget(f, src, Cardinality(DOMAIN f)) THEN Raised(f)
        ELSE Returned(Put(f, w[1], File(Stat(f, src)[1].data)))

\* os.link(src, dst): a second entry for src's file; an existing dst raises.
Link(f, src, dst) ==
    IF ~LExists(f, src) \/ LExists(f, dst) \/ ~IsDir(f, Parent(dst)) THEN Raised(f)
    ELSE Returned(Put(f, dst, f[src]))

\* os.symlink(src, dst): src need not exist; an existing dst raises.
SymlinkTo(f, src, dst) ==
    IF LExists(f, dst) \/ ~IsDir(f, Parent(dst)) THEN Raised(f)
    ELSE Returned(Put(f, dst, Symlink(src)))

\* The four values the branches of lines 113-120 compare transfer_type with.
TransferTypes == {"move", "copy", "link", "softlink"}

\* Lines 113-120: the branch transfer_type selects; no branch, no operation.
Transfer(transfer_type, f, src, dst) ==
    CASE transfer_type = "move" -> Move(f, src, dst)
      [] transfer_type = "copy" -> Copy2(f, src, dst)
      [] transfer_type = "link" -> Link(f, src, dst)
      [] transfer_type = "softlink" -> SymlinkTo(f, src, dst)
      [] OTHER -> Returned(f)

-----------------------------------------------------------------------------
(* The configurations and directories of the model *)

Str_src == <<"s", "r", "c">>

Str_t == <<"t">>

Str_M == <<"M">>

Str_gone == <<"g", "o", "n", "e">>

\* f"Season {season_num}", line 88.
SeasonName(season_num) == <<"S", "e", "a", "s", "o", "n", " ">> \o IntToStr(season_num)

\* Line 88: Path(target_path) / media_name / f"Season {season_num}".
TargetDir(target_path, media_name, season_num) ==
    target_path \o <<media_name, SeasonName(season_num)>>

\* Line 106: f"{media_name} - S{season_num:02d}E{ep:02d}{ext}".
NewFilename(media_name, season_num, ep, ext) ==
    media_name \o <<" ", "-", " ", "S">> \o Pad2(season_num)
        \o <<"E">> \o Pad2(ep) \o ext

\* The directories of the model: a source directory, the target root, and
\* the season directory of season 1 under it.
SrcDir == <<Str_src>>

TargetRoot == <<Str_t>>

Season1Dir == TargetDir(TargetRoot, Str_M, 1)

\* The file names of the model.
Name_a == <<"a", ".", "m", "k", "v">>

Name_e1 == <<"e", "1", ".", "m", "k", "v">>

Name_n == <<"n", ".", "t", "x", "t">>

Name_z == <<"z", ".", "M", "K", "V">>

Name_gone == Str_gone \o <<".", "m", "k", "v">>

Name_S01E01 == NewFilename(Str_M, 1, 1, <<".", "m", "k", "v">>)

SrcNames == {Name_a, Name_e1, Name_n, Name_z}

\* What the season directory of season 1 holds before the first call: it is
\* missing, or it holds any of e1.mkv (a file) and "M - S01E01.mkv" (a file,
\* a directory, or a link left by an earlier softlink run whose source is
\* gone).
SeasonLayouts ==
    {[present |-> FALSE, e1 |-> FALSE, old |-> "none"]} \cup
    [present : {TRUE}, e1 : BOOLEAN, old : {"none", "file", "dir", "symlink"}]

\* A regular file holds, as its content, the path it had before the first call.
InitialFs(names, layout) ==
    LET ds == {<<>>, SrcDir, TargetRoot} \cup
              (IF layout.present
               THEN {TargetRoot \o <<Str_M>>, Season1Dir} ELSE {}) \cup
              (IF layout.old = "dir" THEN {Season1Dir \o <<Name_S01E01>>} ELSE {})
        fl == { SrcDir \o <<n>> : n \in names } \cup
              (IF layout.e1 THEN {Season1Dir \o <<Name_e1>>} ELSE {}) \cup
              (IF layout.old = "file" THEN {Season1Dir \o <<Name_S01E01>>} ELSE {})
        ln == IF layout.old = "symlink" THEN {Season1Dir \o <<Name_S01E01>>} ELSE {}
    IN  [p \in ds \cup fl \cup ln |->
            IF p \in ds THEN Dir
            ELSE IF p \in fl THEN File(p)
            ELSE Symlink(SrcDir \o <<Name_gone>>)]

\* The configurations the host may hold: the source path is empty, the
\* source directory, the season directory of season 1, a missing directory
\* or a regular file; the transfer type is one of the form's four values or
\* another string.
Configs ==
    [enabled : BOOLEAN, run_now : BOOLEAN,
     source_path : {<<>>, SrcDir, Season1Dir, <<Str_gone>>, SrcDir \o <<Name_n>>},
     target_path : {<<>>, TargetRoot},
     media_name : {<<>>, Str_M},
     season : {<<"2">>, <<"x">>},
     transfer_type : TransferTypes \cup {"symlink"}]

\* The class attributes of lines 30-36.
Defaults ==
    [enabled |-> FALSE, run_now |-> FALSE, source_path |-> <<>>,
     target_path |-> <<>>, media_name |-> <<>>, season |-> <<"1">>,
     transfer_type |-> "softlink"]

-----------------------------------------------------------------------------
(* The plugin *)

VARIABLES
    stored,         \* the configuration the host persists (update_config)
    calls,          \* how many times the host has called init_plugin
    pc,             \* where the current call of init_plugin is
    self,           \* the plugin's fields _enabled .. _transfer_type
    fs,             \* the file system
    season_num,     \* locals of _do_transfer
    target_dir,
    files,
    idx,            \* the position of the loop of line 98 in files
    fallback_ep,
    success_count,
    started,        \* history: the current call ran _do_transfer
    raised,         \* history: an exception left the current call
    fs0,            \* history: the file system when the current call began
    fsPrev,         \* history: the file system before the last iteration
    log,            \* history: one record per iteration of the loop
    posted,         \* history: the summaries handed to post_message
    stem,           \* the argument of a call of _get_episode on its own
    episode,        \* what that call returned
    epPc            \* whether that call has returned

vars == <<stored, calls, pc, self, fs, season_num, target_dir, files, idx,
          fallback_ep, success_count, started, raised, fs0, fsPrev, log,
          posted, stem, episode, epPc>>

episodeVars == <<stem, episode, epPc>>

localVars == <<season_num, target_dir, files, idx, fallback_ep, success_count>>

\* How many calls of init_plugin (loads of the plugin by the host) a
\* behaviour holds.
MaxCalls == 2

\* The permutations of a finite set: the orders iterdir() may list it in.
Perms(S) ==
    { s \in [1..Cardinality(S) -> S] :
        \A i, j \in 1..Cardinality(S) : i # j => s[i] # s[j] }

\* list.sort(key=lambda x: x.name), line 95, as an insertion sort.
RECURSIVE InsertByName(_, _)
InsertByName(x, sorted) ==
    IF sorted = <<>> THEN <<x>>
    ELSE IF StrLess(x, Head(sorted)) THEN <<x>> \o sorted
    ELSE <<Head(sorted)>> \o InsertByName(x, Tail(sorted))

RECURSIVE SortByName(_)
SortByName(l) ==
    IF l = <<>> THEN <<>> ELSE InsertByName(Head(l), SortByName(Tail(l)))

\* Line 92: the names of the entries of src_dir that are files with a
\* suffix of _exts.
Eligible(f, src_dir) ==
    { n \in IterDir(f, src_dir) :
        IsFile(f, src_dir \o <<n>>) /\ Lower(Suffix(n)) \in exts }

\* Valid without the is_dir() test of line 78.
ValidNoDirCheck(s, f) ==
    /\ s.source_path # <<>>
    /\ s.target_path # <<>>
    /\ s.media_name # <<>>
    /\ Exists(f, s.source_path)

\* Lines 73-80: whether _do_transfer goes past its two early returns.
Valid(s, f) ==
    /\ s.source_path # <<>>
    /\ s.target_path # <<>>
    /\ s.media_name # <<>>
    /\ Exists(f, s.source_path)
    /\ IsDir(f, s.source_path)

\* Lines 82-85: int(self._season), 1 when it raises.
SeasonNum(season) == IF IntOfStr(season) = None THEN 1 ELSE IntOfStr(season)[1]

\* Lines 99-102: the episode number of a file whose extraction gave e.
EpisodeOf(e, fallback) == IF e = None THEN fallback ELSE e[1]

\* NextFallback with the increment of line 102 outside the if.
NextFallbackAlways(e, fallback) == fallback + 1

\* Lines 100-102: the fallback counter after that file.
NextFallback(e, fallback) == IF e = None THEN fallback + 1 ELSE fallback

\* The state before the host's first call, whatever the configuration and
\* the file system are.
Boot ==
    /\ calls = 0
    /\ pc = "idle"
    /\ self = Defaults
    /\ season_num = 1
    /\ target_dir = <<>>
    /\ files = <<>>
    /\ idx = 0
    /\ fallback_ep = 1
    /\ success_count = 0
    /\ started = FALSE
    /\ raised = FALSE
    /\ fs0 = fs
    /\ fsPrev = fs
    /\ log = <<>>
    /\ posted = <<>>

Init ==
    /\ stored \in Configs
    /\ fs \in { InitialFs(names, layout) :
                  names \in SUBSET SrcNames, layout \in SeasonLayouts }
    /\ Boot
    /\ stem = <<>>
    /\ episode = None
    /\ epPc = "off"

\* Lines 41-54: the host calls init_plugin with the configuration it holds;
\* the fields are loaded, and _do_transfer is entered when both switches are
\* on.
init_plugin ==
    /\ pc = "idle"
    /\ calls < MaxCalls
    /\ calls' = calls + 1
    /\ self' = stored
    /\ started' = (stored.enabled /\ stored.run_now)
    /\ pc' = IF stored.enabled /\ stored.run_now THEN "validate" ELSE "idle"
    /\ raised' = FALSE
    /\ fs0' = fs
    /\ fsPrev' = fs
    /\ log' = <<>>
    /\ posted' = <<>>
    /\ files' = <<>>
    /\ idx' = 0
    /\ UNCHANGED <<stored, fs, season_num, target_dir, fallback_ep,
                   success_count, episodeVars>>

\* Lines 73-80: an early return leads back to init_plugin, line 56.
Validate ==
    /\ pc = "validate"
    /\ pc' = IF Valid(self, fs) THEN "mkdir" ELSE "reset"
    /\ UNCHANGED <<stored, calls, self, fs, localVars, started, raised, fs0,
                   fsPrev, log, posted, episodeVars>>

\* Lines 82-89: the season number, the target directory, and mkdir, which
\* raises when a prefix of the path is no directory or the system refuses
\* (fault); the exception leaves _do_transfer and init_plugin.
MakeTargetDir ==
    /\ pc = "mkdir"
    /\ \E fault \in BOOLEAN :
         LET n == SeasonNum(self.season)
             d == TargetDir(self.target_path, self.media_name, n)
         IN  /\ season_num' = n
             /\ target_dir' = d
             /\ IF fault \/ ~CanMkdir(fs, d)
                THEN /\ raised' = TRUE
                     /\ pc' = "idle"
                     /\ fs' = fs
                ELSE /\ raised' = raised
                     /\ pc' = "list"
                     /\ fs' = Mkdir(fs, d)
    /\ UNCHANGED <<stored, calls, self, files, idx, fallback_ep,
                   success_count, started, fs0, fsPrev, log, posted,
                   episodeVars>>

\* Lines 91-96: the eligible files, listed in any order and sorted by name
\* (the listing itself is taken to succeed on the directory line 78 found).
ListFiles ==
    /\ pc = "list"
    /\ \E listing \in Perms(Eligible(fs, self.source_path)) :
         files' = SortByName(listing)
    /\ success_count' = 0
    /\ fallback_ep' = 1
    /\ idx' = 1
    /\ pc' = "loop"
    /\ UNCHANGED <<stored, calls, self, fs, season_num, target_dir, started,
                   raised, fs0, fsPrev, log, posted, episodeVars>>

\* Lines 98-125, one iteration: the episode number, the destination, the
\* removal of an existing destination (outside the try: when unlink raises,
\* the exception leaves _do_transfer and init_plugin), and the transfer
\* (inside the try: when it raises, the file is logged as failed).  fault_rm
\* and fault_op are the system refusing the call.
ProcessFile ==
    /\ pc = "loop"
    /\ idx <= Len(files)
    /\ \E fault_rm, fault_op \in BOOLEAN :
         LET name == files[idx]
             file == self.source_path \o <<name>>
             e == _get_episode(Stem(name))
             ep == EpisodeOf(e, fallback_ep)
             ext == Lower(Suffix(name))
             new_filename == NewFilename(self.media_name, season_num, ep, ext)
             new_filepath == target_dir \o <<new_filename>>
             existed == Exists(fs, new_filepath)
             fs1 == IF existed THEN Remove(fs, new_filepath) ELSE fs
             r == IF fault_op /\ self.transfer_type \in TransferTypes
                  THEN Raised(fs1)
                  ELSE Transfer(self.transfer_type, fs1, file, new_filepath)
             entry == [name |-> name, ep |-> ep, dest |-> new_filepath,
                       existed |-> existed]
         IN  /\ fallback_ep' = NextFallback(e, fallback_ep)
             /\ fsPrev' = fs
             /\ IF existed /\ (fault_rm \/ ~CanUnlink(fs, new_filepath))
                THEN /\ raised' = TRUE
                     /\ pc' = "idle"
                     /\ fs' = fs
                     /\ idx' = idx
                     /\ success_count' = success_count
                     /\ log' = Append(log, entry @@ [outcome |-> "raised"])
                ELSE /\ raised' = raised
                     /\ pc' = "loop"
                     /\ fs' = r.fs
                     /\ idx' = idx + 1
                     /\ success_count' =
                          IF r.ok THEN success_count + 1 ELSE success_count
                     /\ log' = Append(log, entry @@
                          [outcome |-> IF r.ok THEN "ok" ELSE "failed"])
    /\ UNCHANGED <<stored, calls, self, season_num, target_dir, files,
                   started, fs0, posted, episodeVars>>

\* Lines 127-129: the loop is over; the summary goes to post_message.
Report ==
    /\ pc = "loop"
    /\ idx > Len(files)
    /\ posted' = Append(posted, [media_name |-> self.media_name,
                                 count |-> success_count,
                                 transfer_type |-> self.transfer_type])
    /\ pc' = "reset"
    /\ UNCHANGED <<stored, calls, self, fs, localVars, started, raised, fs0,
                   fsPrev, log, episodeVars>>

\* Lines 56-57: _do_transfer has returned; config["run_now"] = False and
\* update_config(config).
ResetTrigger ==
    /\ pc = "reset"
    /\ stored' = [stored EXCEPT !.run_now = FALSE]
    /\ pc' = "idle"
    /\ UNCHANGED <<calls, self, fs, localVars, started, raised, fs0, fsPrev,
                   log, posted, episodeVars>>

Next ==
    \/ init_plugin
    \/ Validate
    \/ MakeTargetDir
    \/ ListFiles
    \/ ProcessFile
    \/ Report
    \/ ResetTrigger

Spec == Init /\ [][Next]_vars

-----------------------------------------------------------------------------
(* _get_episode on its own: the stems are the concatenations of at most    *)
(* MaxTokens tokens.                                                       *)

MaxTokens == 3

Tokens ==
    { <<"e">>, <<"E">>, <<"P">>, <<DI>>, <<" ">>, <<"x">>, <<"0">>, <<"3">>,
      <<" ", "3">>, <<"E", "0">>,
      <<"2", "6", "4">>, <<"2", "6", "5">>, <<"7", "2", "0">>,
      <<"4", "8", "0">>, <<"9", "9", "9">>, <<"1", "0", "0", "0">> }

RECURSIVE Flatten(_)
Flatten(ts) == IF ts = <<>> THEN <<>> ELSE Head(ts) \o Flatten(Tail(ts))

\* Python's integers are unbounded and TLC's are 32-bit: a stem is kept
\* when int() of each of its digit runs fits, that is when no run has more
\* than 9 digits.
RunsFit(s) ==
    \A i \in 1..Len(s) : IsDigit(s[i]) => DigitRunEnd(s, i) - i < 9

InitEpisode ==
    /\ \E n \in 0..MaxTokens :
         \E ts \in [1..n -> Tokens] :
            /\ stem = Flatten(ts)
            /\ RunsFit(stem)
    /\ episode = None
    /\ epPc = "call"
    /\ stored = Defaults
    /\ fs = InitialFs({}, [present |-> FALSE, e1 |-> FALSE, old |-> "none"])
    /\ Boot

\* One call of _get_episode(stem).
GetEpisode ==
    /\ epPc = "call"
    /\ episode' = _get_episode(stem)
    /\ epPc' = "done"
    /\ UNCHANGED <<stem, stored, calls, pc, self, fs, localVars, started,
                   raised, fs0, fsPrev, log, posted>>

NextEpisode == GetEpisode

SpecEpisode == InitEpisode /\ [][NextEpisode]_vars

-----------------------------------------------------------------------------
(* What the claims speak of, stated apart from the model's operators *)

\* The run's validation succeeds: the three settings are non-empty and the
\* source path was an existing directory when the call began.
ValidationHolds ==
    /\ self.source_path # <<>>
    /\ self.target_path # <<>>
    /\ self.media_name # <<>>
    /\ self.source_path \in DOMAIN fs0
    /\ fs0[self.source_path].kind = "dir"

\* The call of init_plugin that ran _do_transfer is over.
RunOver == pc = "idle" /\ started

\* The transfer type is one of the four the configuration form offers.
Documented == self.transfer_type \in {"move", "copy", "link", "softlink"}

\* The last iteration of the loop, and the paths it worked on.
Last == log[Len(log)]

LastSrc == self.source_path \o <<Last.name>>

\* The destination of the last iteration holds the entry the transfer type
\* makes from the source file: the source's own entry (move, link), a
\* regular file with the source's content (copy), a link to the source path
\* (softlink); and the iteration left no entry at any path that had none.
DestHoldsNew ==
    /\ Last.dest \in DOMAIN fs
    /\ CASE self.transfer_type = "move" ->
              LastSrc \in DOMAIN fsPrev /\ fs[Last.dest] = fsPrev[LastSrc]
         [] self.transfer_type = "link" ->
              LastSrc \in DOMAIN fs /\ fs[Last.dest] = fs[LastSrc]
         [] self.transfer_type = "copy" ->
              /\ LastSrc \in DOMAIN fs
              /\ fs[LastSrc].kind = "file"
              /\ fs[Last.dest] = fs[LastSrc]
         [] self.transfer_type = "softlink" ->
              fs[Last.dest] = [kind |-> "symlink", data |-> LastSrc]
         [] OTHER -> FALSE
    /\ DOMAIN fs \subseteq DOMAIN fsPrev \cup {Last.dest}

\* The stems of the files of the listing whose extraction gives no number.
UnknownUpTo(i) == { j \in 1..i : _get_episode(Stem(files[j])) = None }

-----------------------------------------------------------------------------
(* The claims about _do_transfer and init_plugin *)

\* C1: per-file error isolation.  When a run is over, every file of the
\* sorted listing has been attempted, and whatever failed while it was
\* handled (removing an existing destination included) was caught and
\* counted as that file's failure.  (Stated for the four documented
\* transfer types.)
C1_PerFileIsolation ==
    (RunOver /\ Documented) =>
        \A i \in 1..Len(files) :
            /\ i <= Len(log)
            /\ log[i].name = files[i]
            /\ log[i].outcome \in {"ok", "failed"}

\* C2: once validation has succeeded, the run returns normally and hands
\* exactly one summary to the notifier, whatever file-system step fails.
\* (Stated for the four documented transfer types.)
C2_AlwaysReports ==
    (RunOver /\ ValidationHolds /\ Documented) => (~raised /\ Len(posted) = 1)

\* C3: a run whose validation fails processes no file, changes nothing in
\* the file system (no directory or file is created or removed) and posts
\* no summary.
C3_AbortLeavesUnchanged ==
    (started /\ ~ValidationHolds) =>
        (fs = fs0 /\ files = <<>> /\ log = <<>> /\ posted = <<>>)

\* C3's case: a run that began with a source path that exists but is no
\* directory is over.
C3_Witness ==
    /\ RunOver
    /\ ~ValidationHolds
    /\ self.target_path # <<>>
    /\ self.media_name # <<>>
    /\ self.source_path \in DOMAIN fs0

\* C4: under copy, link and softlink, every eligible file the source
\* directory held when the run began is still there, unchanged, when the
\* run is over.
C4_SourcePreserved ==
    (RunOver /\ ValidationHolds /\ self.transfer_type \in {"copy", "link", "softlink"}) =>
        \A p \in DOMAIN fs0 :
            ( /\ Len(p) = Len(self.source_path) + 1
              /\ SubSeq(p, 1, Len(p) - 1) = self.source_path
              /\ fs0[p].kind = "file"
              /\ Lower(Suffix(p[Len(p)])) \in exts )
            => (p \in DOMAIN fs /\ fs[p] = fs0[p])

C6_DistinctDestinations ==
    Documented =>
        \A i, j \in 1..Len(log) : i # j => log[i].dest # log[j].dest

\* C7: the count of the summary is the number of files counted, it does not
\* exceed the number of files listed, and a file is counted only when its
\* transfer created its destination entry: right after a counted file the
\* destination has an entry, and that entry is not the one that was there
\* before the file was processed.
C7_CountIsRealSuccesses ==
    /\ posted # <<>> =>
          /\ posted[1].count = Cardinality({ i \in 1..Len(log) : log[i].outcome = "ok" })
          /\ posted[1].count <= Len(files)
    /\ (log # <<>> /\ Last.outcome = "ok") =>
          /\ Last.dest \in DOMAIN fs
          /\ \/ Last.existed
             \/ Last.dest \notin DOMAIN fsPrev
             \/ fs[Last.dest] # fsPrev[Last.dest]

\* C8: the files are processed in ascending order of name; a file whose
\* extraction gives a number gets that number, and the k-th file (in that
\* order) whose extraction gives none gets k.
C8_FallbackNumbering ==
    /\ \A i \in 1..Len(files) : \A j \in 1..Len(files) :
          i < j => StrLess(files[i], files[j])
    /\ \A i \in 1..Len(log) :
          /\ log[i].name = files[i]
          /\ LET e == _get_episode(Stem(files[i]))
             IN  IF e = None
                 THEN log[i].ep = Cardinality(UnknownUpTo(i))
                 ELSE log[i].ep = e[1]

\* C8's case: three files were processed, the first and the third without a
\* number in the name, the second with one.
C8_Witness ==
    /\ Len(log) = 3
    /\ UnknownUpTo(3) = {1, 3}
    /\ log[3].ep = 2

\* C10: init_plugin runs _do_transfer only when enabled and run_now are
\* both on, and whenever it did, the configuration it leaves persisted has
\* run_now off.  (The second part is stated for the four documented
\* transfer types.)
C10_TriggerResets ==
    /\ started => (self.enabled /\ self.run_now)
    /\ (RunOver /\ Documented) => ~stored.run_now

-----------------------------------------------------------------------------
(* The claim about _get_episode, with the three rules stated on the stem *)

RECURSIVE Pow10(_)
Pow10(n) == IF n = 0 THEN 1 ELSE 10 * Pow10(n - 1)

\* The number a string of decimal digits writes.
RECURSIVE DecimalValue(_)
DecimalValue(ds) ==
    IF ds = <<>> THEN 0
    ELSE DigitVal(Head(ds)) * Pow10(Len(ds) - 1) + DecimalValue(Tail(ds))

\* The maximal digit runs of s, as pairs of first and last index.
DigitRuns(s) ==
    { r \in (1..Len(s)) \X (1..Len(s)) :
        /\ r[1] <= r[2]
        /\ \A k \in r[1]..r[2] : s[k] \in Digits
        /\ (r[1] = 1 \/ s[r[1] - 1] \notin Digits)
        /\ (r[2] = Len(s) \/ s[r[2] + 1] \notin Digits) }

RunValue(s, r) == DecimalValue(SubSeq(s, r[1], r[2]))

\* Rule 1: the digit runs that follow a marker (e, ep or U+7B2C, in either
\* case) and optional whitespace, each with the index where its marker
\* starts.
MarkedRuns(s) ==
    { m \in (1..Len(s)) \X DigitRuns(s) :
        \E k \in {m[1] + 1, m[1] + 2} :
            /\ k <= m[2][1]
            /\ \/ k = m[1] + 1 /\ s[m[1]] \in {"e", "E", DI}
               \/ k = m[1] + 2 /\ s[m[1]] \in {"e", "E"} /\ s[m[1] + 1] \in {"p", "P"}
            /\ \A q \in k..(m[2][1] - 1) : s[q] = " "
      }

\* Rule 2: the runs whose value is below 1000 and not blacklisted.
SurvivingRuns(s) ==
    { r \in DigitRuns(s) :
        RunValue(s, r) < 1000 /\ RunValue(s, r) \notin {264, 265, 720, 480} }

\* What the three rules give for stem s.
RuleResult(s) ==
    IF MarkedRuns(s) # {}
    THEN LET m == CHOOSE m \in MarkedRuns(s) :
                     \A o \in MarkedRuns(s) : m[1] <= o[1]
         IN  <<RunValue(s, m[2])>>
    ELSE IF SurvivingRuns(s) # {}
    THEN LET r == CHOOSE r \in SurvivingRuns(s) :
                     \A o \in SurvivingRuns(s) : o[1] <= r[1]
         IN  <<RunValue(s, r)>>
    ELSE <<>>

\* C9: the result of _get_episode is the one the ordered rules give: the
\* number after the first marker; otherwise the last digit run below 1000
\* that is not blacklisted; otherwise unknown.  A result of rule 2 is below
\* 1000 and not blacklisted, and no result is negative.
C9_ExtractionRules ==
    epPc = "done" =>
        /\ episode = RuleResult(stem)
        /\ episode # <<>> => episode[1] >= 0
        /\ (episode # <<>> /\ MarkedRuns(stem) = {}) =>
              (episode[1] < 1000 /\ episode[1] \notin {264, 265, 720, 480})

\* C9's case: no marker, the last run is blacklisted and an earlier one is
\* the result.
C9_Witness ==
    /\ epPc = "done"
    /\ stem = <<"3", "x", "2", "6", "4">>
    /\ episode = <<3>>

=============================================================================
